---- MODULE Spec2Model ----
(***************************************************************************)
(* Data Cleaner Pro: the connection provider (utils/db.py get_engine under *)
(* st.cache_resource), the chunked ingestion of uploaded files into the    *)
(* raw_data table (pages/limpieza_csv.py, "Process for Transformation")    *)
(* and the in-memory cleaner (FileProcessor.clean_dataframe).              *)
(*                                                                         *)
(* Spec      : one Streamlit process, one operator; script runs of main()  *)
(*             with get_engine and the batch loop.                         *)
(* SpecClean : clean_dataframe applied to every bounded DataFrame, and     *)
(*             applied again to its own result.                            *)
(***************************************************************************)
EXTENDS Integers, Sequences, FiniteSets, TLC

\* ---------------------------------------------------------------- bounds
MaxRetries == 3     \* MAX_DB_RETRIES (config, not in the sources) ranges over 0..MaxRetries
MaxRuns == 2        \* script runs of main() in one process lifetime
MaxFiles == 3       \* files in one upload
MaxChunks == 3      \* chunks pandas yields for one file
MaxRows == 3        \* rows of a DataFrame given to clean_dataframe
MaxCols == 2        \* columns of a DataFrame given to clean_dataframe

\* ---------------------------------------------------------------- values
None == 0                       \* get_engine's failure value; a handle is 1, 2, ...
Null == "NaN"                   \* a missing cell
\* the cells a column can hold: two values in the first two columns, one in the rest
Cells(j) == (IF j <= 2 THEN {"a", "b"} ELSE {"a"}) \cup {Null}

VARIABLES
    MAX_DB_RETRIES,   \* config.MAX_DB_RETRIES, fixed for the process lifetime
    pc,               \* where the script run of main() stands
    runs,             \* script runs started so far
    cache,            \* st.cache_resource entry of get_engine: [filled, value]
    attempt,          \* get_engine's loop variable
    outcomes,         \* what each attempt of the current/last computing call did
    connects,         \* connection attempts (create_engine + connect + SELECT 1) in the process
    ge,               \* how the last get_engine call ended
    engine,           \* DatabaseManager.engine of the current script run
    uploaded,         \* number of uploaded files of the current script run
    button,           \* "Process for Transformation" pressed in this script run
    fileIdx,          \* files of the batch already processed
    chunk,            \* chunks the iterator has yielded for the current file
    is_first_chunk,   \* process_large_file's flag
    writes,           \* the to_sql calls issued for the current (last) file
    table,            \* contents of raw_data: one entry per chunk written
    results,          \* process_large_file's return value, per file of the batch
    success_count,    \* main's counter
    raw_data_loaded,  \* st.session_state.raw_data_loaded
    df,               \* the DataFrame given to clean_dataframe
    cleaned,          \* clean_dataframe's result, and the result of cleaning that again
    stats,            \* the stats dict of each of the two passes
    pass              \* passes of clean_dataframe done

ingestVars == <<MAX_DB_RETRIES, pc, runs, cache, attempt, outcomes, connects, ge,
                engine, uploaded, button, fileIdx, chunk, is_first_chunk, writes, table,
                results, success_count, raw_data_loaded>>
cleanVars == <<df, cleaned, stats, pass>>
vars == <<ingestVars, cleanVars>>

\* ------------------------------------------------------- utils/db.py

\* for attempt in range(MAX_DB_RETRIES)
RetryRange == 0 .. (MAX_DB_RETRIES - 1)

\* if attempt < MAX_DB_RETRIES - 1: sleep and go on; else: return None
LastAttemptEarly(a) == a >= MAX_DB_RETRIES - 2
LastAttempt(a) == ~(a < MAX_DB_RETRIES - 1)

\* except OperationalError: the only exception the loop catches
Caught(outcome) == outcome = "OperationalError"

\* what one attempt (create_engine, engine.connect, SELECT 1) can do
AttemptOutcomes == {"ok", "OperationalError", "OtherError"}

\* st.cache_resource: a stored return value (None included) is returned without
\* running the function; an exception stores nothing.
CacheHitNever(c) == FALSE
CacheHit(c) == c.filled

CacheStore(v) == [filled |-> TRUE, value |-> v]

EmptyCache == [filled |-> FALSE, value |-> None]

\* ------------------------------------------- pages/limpieza_csv.py: ingestion

\* if_exists = 'replace' if is_first_chunk else 'append'
IfExistsAppendOnly(first) == "append"
IfExistsReplaceOnly(first) == "replace"
IfExists(first) == IF first THEN "replace" ELSE "append"

\* if not self.engine: ... return False
EngineAvailableAlways(e) == TRUE
EngineAvailable(e) == e # None

\* df.to_sql(table_name, engine, if_exists=...) when it succeeds
ToSql(t, rows, mode) == IF mode = "replace" THEN rows ELSE t \o rows

\* df.to_sql when it raises: an append leaves the table as it was; a replace
\* may have dropped the table before failing.
ToSqlFailed(t, mode) == IF mode = "replace" THEN {t, <<>>} ELSE {t}

\* if file_processor.process_large_file(file): success_count += 1
CountAfterAlways(count, ok) == count + 1
CountAfter(count, ok) == IF ok THEN count + 1 ELSE count

\* if success_count > 0: st.session_state.raw_data_loaded = True
LoadedAfter(prev, count) == IF count > 0 THEN "True" ELSE prev

\* the rows of one chunk, as they sit in raw_data
ChunkRows(r, f, c) == << <<r, f, c>> >>

\* if not self.db_manager.save_dataframe(...): return False
StopNever(ok) == FALSE
StopOnFailure(ok) == ~ok

\* ----------------------------------------------------------------- Init

EmptyFrame == [columns |-> <<>>, rows |-> <<>>]

IngestIdle ==
    /\ pc = "idle"
    /\ runs = 0
    /\ cache = EmptyCache
    /\ attempt = 0
    /\ outcomes = <<>>
    /\ connects = 0
    /\ ge = "never"
    /\ engine = None
    /\ uploaded = 0
    /\ button = FALSE
    /\ fileIdx = 0
    /\ chunk = 0
    /\ is_first_chunk = TRUE
    /\ writes = <<>>
    /\ table = <<>>
    /\ results = <<>>
    /\ success_count = 0
    /\ raw_data_loaded = "None"

CleanIdle ==
    /\ df = EmptyFrame
    /\ cleaned = <<>>
    /\ stats = <<>>
    /\ pass = 0

\* The process starts with nothing cached, nothing uploaded and an empty raw_data,
\* under whatever retry count config.py sets.
Init ==
    /\ MAX_DB_RETRIES \in 0 .. MaxRetries
    /\ IngestIdle
    /\ CleanIdle

\* ------------------------------------------------- script runs of main()

\* The locals of main() and of process_large_file at the start of a script run.
FreshLocals ==
    /\ fileIdx' = 0
    /\ chunk' = 0
    /\ is_first_chunk' = TRUE
    /\ writes' = <<>>
    /\ results' = <<>>
    /\ success_count' = 0

\* A script run with no file in the uploader: "if uploaded_files:" is false and
\* nothing else happens.
RerunNoFiles ==
    /\ pc \in {"idle", "done"}
    /\ runs < MaxRuns
    /\ runs' = runs + 1
    /\ uploaded' = 0
    /\ button' = FALSE
    /\ pc' = "idle"
    /\ FreshLocals
    /\ UNCHANGED <<cleanVars, MAX_DB_RETRIES, cache, attempt, outcomes, connects, ge, engine,
                   table, raw_data_loaded>>

\* A script run with n files uploaded: DatabaseManager() calls get_engine(),
\* which st.cache_resource answers from its cache or runs.
Rerun(n, pressed) ==
    /\ pc \in {"idle", "done"}
    /\ runs < MaxRuns
    /\ runs' = runs + 1
    /\ uploaded' = n
    /\ button' = pressed
    /\ FreshLocals
    /\ IF CacheHit(cache)
         THEN /\ engine' = cache.value
              /\ ge' = "cached"
              /\ pc' = "ready"
              /\ UNCHANGED <<attempt, outcomes>>
         ELSE /\ ge' = "running"
              /\ pc' = "get_engine"
              /\ attempt' = 0
              /\ outcomes' = <<>>
              /\ UNCHANGED engine
    /\ UNCHANGED <<cleanVars, MAX_DB_RETRIES, cache, connects, table, raw_data_loaded>>

\* get_engine returns v: the decorator stores it, DatabaseManager keeps it.
Returns(v) ==
    /\ cache' = CacheStore(v)
    /\ engine' = v
    /\ ge' = "returned"
    /\ pc' = "ready"

\* One iteration of get_engine's loop.
Attempt(outcome) ==
    /\ pc = "get_engine"
    /\ attempt \in RetryRange
    /\ connects' = connects + 1
    /\ outcomes' = Append(outcomes, outcome)
    /\ IF outcome = "ok"
         THEN Returns(connects + 1) /\ UNCHANGED attempt
         ELSE IF Caught(outcome)
           THEN IF LastAttempt(attempt)
                  THEN Returns(None) /\ UNCHANGED attempt
                  ELSE /\ attempt' = attempt + 1
                       /\ UNCHANGED <<cache, engine, ge, pc>>
           ELSE \* the exception leaves get_engine, DatabaseManager() and main()
                /\ ge' = "raised"
                /\ pc' = "idle"
                /\ UNCHANGED <<cache, engine, attempt>>
    /\ UNCHANGED <<cleanVars, MAX_DB_RETRIES, runs, uploaded, button, fileIdx, chunk, is_first_chunk,
                   writes, table, results, success_count, raw_data_loaded>>

\* The loop ran out of range(MAX_DB_RETRIES): the trailing "return None".
LoopExhausted ==
    /\ pc = "get_engine"
    /\ attempt \notin RetryRange
    /\ Returns(None)
    /\ UNCHANGED <<cleanVars, MAX_DB_RETRIES, runs, attempt, outcomes, connects, uploaded, button,
                   fileIdx, chunk, is_first_chunk, writes, table, results, success_count,
                   raw_data_loaded>>

\* The script run ends with no button pressed.
NoButton ==
    /\ pc = "ready"
    /\ ~button
    /\ pc' = "idle"
    /\ UNCHANGED <<cleanVars, MAX_DB_RETRIES, runs, cache, attempt, outcomes, connects, ge, engine,
                   uploaded, button, fileIdx, chunk, is_first_chunk, writes, table, results,
                   success_count, raw_data_loaded>>

\* "Process for Transformation" was pressed: success_count = 0, the loop starts.
StartBatch ==
    /\ pc = "ready"
    /\ button
    /\ pc' = "batch"
    /\ success_count' = 0
    /\ UNCHANGED <<cleanVars, MAX_DB_RETRIES, runs, cache, attempt, outcomes, connects, ge, engine,
                   uploaded, button, fileIdx, chunk, is_first_chunk, writes, table, results,
                   raw_data_loaded>>

\* process_large_file returns r to main's loop.
FinishFile(r) ==
    /\ results' = Append(results, r)
    /\ success_count' = CountAfter(success_count, r)
    /\ fileIdx' = fileIdx + 1
    /\ pc' = "batch"

\* process_large_file starts on the next file: seek, sniff, pd.read_csv. read_csv
\* raises on a file with nothing to parse (EmptyDataError), which the except
\* turns into False.
OpenFile(opens) ==
    /\ pc = "batch"
    /\ fileIdx < uploaded
    /\ writes' = <<>>
    /\ chunk' = 0
    /\ is_first_chunk' = TRUE
    /\ IF opens
         THEN pc' = "file" /\ UNCHANGED <<results, success_count, fileIdx>>
         ELSE FinishFile(FALSE)
    /\ UNCHANGED <<cleanVars, MAX_DB_RETRIES, runs, cache, attempt, outcomes, connects, ge, engine,
                   uploaded, button, table, raw_data_loaded>>

\* The iterator yields the next chunk and save_dataframe is called on it.
SaveChunk(written) ==
    /\ pc = "file"
    /\ chunk < MaxChunks
    /\ chunk' = chunk + 1
    /\ LET mode == IfExists(is_first_chunk) IN
       IF ~EngineAvailable(engine)
         THEN /\ FinishFile(FALSE)
              /\ UNCHANGED <<writes, table, is_first_chunk>>
         ELSE /\ writes' = Append(writes, [chunk |-> chunk + 1, mode |-> mode,
                                           table |-> "raw_data", ok |-> written])
              /\ IF written
                   THEN table' = ToSql(table, ChunkRows(runs, fileIdx + 1, chunk + 1), mode)
                   ELSE table' \in ToSqlFailed(table, mode)
              /\ IF StopOnFailure(written)
                   THEN FinishFile(FALSE) /\ UNCHANGED is_first_chunk
                   ELSE /\ is_first_chunk' = FALSE
                        /\ UNCHANGED <<results, success_count, fileIdx, pc>>
    /\ UNCHANGED <<cleanVars, MAX_DB_RETRIES, runs, cache, attempt, outcomes, connects, ge, engine,
                   uploaded, button, raw_data_loaded>>

\* The iterator raises while reading (a ParserError in later lines): the except
\* of process_large_file returns False.
ReadError ==
    /\ pc = "file"
    /\ FinishFile(FALSE)
    /\ UNCHANGED <<cleanVars, MAX_DB_RETRIES, runs, cache, attempt, outcomes, connects, ge, engine,
                   uploaded, button, chunk, is_first_chunk, writes, table, raw_data_loaded>>

\* The iterator is exhausted: return True. pandas yields at least one chunk for
\* any file read_csv opened (a header-only file gives one chunk of zero rows).
EndOfFile ==
    /\ pc = "file"
    /\ chunk >= 1
    /\ FinishFile(TRUE)
    /\ UNCHANGED <<cleanVars, MAX_DB_RETRIES, runs, cache, attempt, outcomes, connects, ge, engine,
                   uploaded, button, chunk, is_first_chunk, writes, table, raw_data_loaded>>

\* After the loop: raw_data_loaded is set when some file succeeded.
EndBatch ==
    /\ pc = "batch"
    /\ fileIdx = uploaded
    /\ raw_data_loaded' = LoadedAfter(raw_data_loaded, success_count)
    /\ pc' = "done"
    /\ UNCHANGED <<cleanVars, MAX_DB_RETRIES, runs, cache, attempt, outcomes, connects, ge, engine,
                   uploaded, button, fileIdx, chunk, is_first_chunk, writes, table, results,
                   success_count>>

Next ==
    \/ RerunNoFiles
    \/ \E n \in 1 .. MaxFiles, pressed \in BOOLEAN : Rerun(n, pressed)
    \/ \E outcome \in AttemptOutcomes : Attempt(outcome)
    \/ LoopExhausted
    \/ NoButton
    \/ StartBatch
    \/ \E opens \in BOOLEAN : OpenFile(opens)
    \/ \E written \in BOOLEAN : SaveChunk(written)
    \/ ReadError
    \/ EndOfFile
    \/ EndBatch

Spec == Init /\ [][Next]_vars

\* ------------------------------------- pages/limpieza_csv.py: clean_dataframe

\* A DataFrame: its column labels in order, and its rows in order, each with its
\* index label and one cell per column.
ColumnCount(d) == Len(d.columns)
RowCount(d) == Len(d.rows)

\* df.shape
Shape(d) == <<RowCount(d), ColumnCount(d)>>

\* the elements of s whose position is in keep, in s's order
RECURSIVE Pick(_, _)
Pick(s, keep) ==
    IF s = <<>> THEN <<>>
    ELSE Pick(SubSeq(s, 1, Len(s) - 1), keep)
           \o (IF Len(s) \in keep THEN <<s[Len(s)]>> ELSE <<>>)

\* .dropna(how='all'): a row is kept when some cell of it is not null
DropNaRows(d) ==
    [d EXCEPT !.rows = Pick(d.rows, {i \in 1 .. RowCount(d) :
                               \E j \in 1 .. ColumnCount(d) : d.rows[i].cells[j] # Null})]

\* .dropna(axis=1, how='all'): a column is kept when some row has a value in it
DropNaCols(d) ==
    LET keep == {j \in 1 .. ColumnCount(d) :
                   \E i \in 1 .. RowCount(d) : d.rows[i].cells[j] # Null}
    IN [columns |-> Pick(d.columns, keep),
        rows |-> [i \in 1 .. RowCount(d) |->
                    [label |-> d.rows[i].label, cells |-> Pick(d.rows[i].cells, keep)]]]

\* .drop_duplicates(): an empty frame is returned as it is; otherwise a row goes
\* when an earlier row has the same cells (NaN equal to NaN), keep='first'.
DropDuplicatesKeepNone(d) ==
    IF RowCount(d) = 0 \/ ColumnCount(d) = 0 THEN d
    ELSE [d EXCEPT !.rows = Pick(d.rows, {i \in 1 .. RowCount(d) :
            \A j \in 1 .. RowCount(d) : j # i => d.rows[j].cells # d.rows[i].cells})]
DropDuplicatesKeepLast(d) ==
    IF RowCount(d) = 0 \/ ColumnCount(d) = 0 THEN d
    ELSE [d EXCEPT !.rows = Pick(d.rows, {i \in 1 .. RowCount(d) :
            \A j \in (i + 1) .. RowCount(d) : d.rows[j].cells # d.rows[i].cells})]
DropDuplicates(d) ==
    IF RowCount(d) = 0 \/ ColumnCount(d) = 0 THEN d
    ELSE [d EXCEPT !.rows = Pick(d.rows, {i \in 1 .. RowCount(d) :
            \A j \in 1 .. (i - 1) : d.rows[j].cells # d.rows[i].cells})]

\* .reset_index(drop=True): the index labels become 0, 1, 2, ...
ResetIndex(d) ==
    [d EXCEPT !.rows = [i \in 1 .. RowCount(d) |->
                          [label |-> i - 1, cells |-> d.rows[i].cells]]]

\* the stats dict, from initial_shape and final_shape
StatsSwapped(initial_shape, final_shape) ==
    [filas_iniciales |-> initial_shape[1], filas_finales |-> final_shape[1],
     columnas_iniciales |-> initial_shape[2], columnas_finales |-> final_shape[2],
     filas_eliminadas |-> final_shape[1] - initial_shape[1],
     columnas_eliminadas |-> final_shape[2] - initial_shape[2]]
Stats(initial_shape, final_shape) ==
    [filas_iniciales |-> initial_shape[1], filas_finales |-> final_shape[1],
     columnas_iniciales |-> initial_shape[2], columnas_finales |-> final_shape[2],
     filas_eliminadas |-> initial_shape[1] - final_shape[1],
     columnas_eliminadas |-> initial_shape[2] - final_shape[2]]

\* FileProcessor.clean_dataframe: (df_cleaned, stats)
CleanDataframe(d) ==
    LET df_cleaned == ResetIndex(DropDuplicates(DropNaCols(DropNaRows(d))))
    IN [df |-> df_cleaned, stats |-> Stats(Shape(d), Shape(df_cleaned))]

\* The frames pd.concat(valid_dfs, ignore_index=True) can hand to
\* clean_dataframe: columns 1..nc, index labels 0..nr-1, the cells given by m.
Frame(nc, nr, m) ==
    [columns |-> [j \in 1 .. nc |-> j],
     rows |-> [i \in 1 .. nr |-> [label |-> i - 1, cells |-> m[i]]]]

\* the rows of nc cells, each cell one its column can hold
RowsOf(nc) == {c \in [1 .. nc -> Cells(1)] : \A j \in 1 .. nc : c[j] \in Cells(j)}

CleanInit ==
    /\ MAX_DB_RETRIES = 0
    /\ IngestIdle
    /\ \E nc \in 0 .. MaxCols, nr \in 0 .. MaxRows :
         \E m \in [1 .. nr -> RowsOf(nc)] : df = Frame(nc, nr, m)
    /\ cleaned = <<>>
    /\ stats = <<>>
    /\ pass = 0

\* "Clean & Download Files": clean_dataframe on the combined frame; the result
\* and its stats go to the session state.
CleanAndDownload ==
    /\ pass = 0
    /\ LET r == CleanDataframe(df) IN
         /\ cleaned' = <<r.df>>
         /\ stats' = <<r.stats>>
    /\ pass' = 1
    /\ UNCHANGED <<ingestVars, df>>

\* clean_dataframe applied to its own result.
CleanAgain ==
    /\ pass = 1
    /\ LET r == CleanDataframe(cleaned[1]) IN
         /\ cleaned' = Append(cleaned, r.df)
         /\ stats' = Append(stats, r.stats)
    /\ pass' = 2
    /\ UNCHANGED <<ingestVars, df>>

NextClean ==
    \/ CleanAndDownload
    \/ CleanAgain

SpecClean == CleanInit /\ [][NextClean]_vars

\* ------------------------------------------------------------ properties

AllTrue(s) == \A i \in 1 .. Len(s) : s[i]
AllOk(w) == \A i \in 1 .. Len(w) : w[i].ok
CallEnded == ge \in {"returned", "raised"}

\* C1: the writes process_large_file issues for a file come in chunk order, the
\* first with mode 'replace', every later one with 'append', all on 'raw_data'.
\* It holds of every write issued, so of a file whose n >= 1 writes all succeed.
C1_WriteModeSequencing ==
    \A i \in 1 .. Len(writes) :
        /\ writes[i].chunk = i
        /\ writes[i].table = "raw_data"
        /\ writes[i].mode = (IF i = 1 THEN "replace" ELSE "append")

\* a file of three chunks, all written, for which process_large_file returned True
C1_Witness ==
    /\ pc = "batch"
    /\ Len(writes) = 3
    /\ AllOk(writes)
    /\ fileIdx >= 1
    /\ results[fileIdx]

\* C2 as stated: whenever every attempt of a get_engine call failed, whatever
\* the failure, the call returned None after exactly MAX_DB_RETRIES attempts.
C2_AnyFailureExhausts ==
    (CallEnded /\ \A i \in 1 .. Len(outcomes) : outcomes[i] # "ok")
        => (ge = "returned" /\ engine = None /\ Len(outcomes) = MAX_DB_RETRIES)

\* C2 amended: a call never makes more than MAX_DB_RETRIES attempts; when every
\* attempt failed with OperationalError it returns None after exactly
\* MAX_DB_RETRIES attempts, and it returns None in no other case; an attempt that
\* fails with another exception ends the call there by raising, nothing cached.
C2_OperationalErrorExhausts ==
    /\ Len(outcomes) <= MAX_DB_RETRIES
    /\ (CallEnded /\ \A i \in 1 .. Len(outcomes) : outcomes[i] = "OperationalError")
         => /\ ge = "returned"
            /\ engine = None
            /\ cache = CacheStore(None)
            /\ Len(outcomes) = MAX_DB_RETRIES
    /\ (ge = "returned" /\ engine = None)
         => /\ Len(outcomes) = MAX_DB_RETRIES
            /\ \A i \in 1 .. Len(outcomes) : outcomes[i] = "OperationalError"
    /\ \A i \in 1 .. Len(outcomes) :
         outcomes[i] = "OtherError"
            => (ge = "raised" /\ i = Len(outcomes) /\ ~cache.filled)

\* three attempts, each an OperationalError, and None returned
C2_Witness ==
    /\ ge = "returned"
    /\ engine = None
    /\ MAX_DB_RETRIES = 3
    /\ outcomes = <<"OperationalError", "OperationalError", "OperationalError">>

\* C3: the batch loop processes every uploaded file whatever happened to the
\* earlier ones, and success_count is the number of files for which
\* process_large_file returned True.
C3_BatchTally ==
    /\ Len(results) = fileIdx
    /\ fileIdx <= uploaded
    /\ success_count = Cardinality({i \in 1 .. Len(results) : results[i]})
    /\ pc = "done" => Len(results) = uploaded

\* three files, the second failed, the third processed, two counted
C3_Witness ==
    /\ pc = "done"
    /\ results = <<TRUE, FALSE, TRUE>>
    /\ success_count = 2

\* C4: when the write of chunk k fails, that write is the file's last (no later
\* chunk is written, none is written twice), process_large_file returns False,
\* and the rows of chunks 1..k-1 are still in the table.
C4_ChunkFailureIsFatal ==
    \A k \in 1 .. Len(writes) :
        /\ writes[k].chunk = k
        /\ ~writes[k].ok =>
             /\ k = Len(writes)
             /\ pc \in {"batch", "done"}
             /\ fileIdx >= 1
             /\ ~results[fileIdx]
             /\ \A j \in 1 .. (k - 1) :
                  \E r \in 1 .. Len(table) : table[r] = <<runs, fileIdx, j>>

\* the third chunk's write failed after two were written
C4_Witness ==
    /\ pc = "batch"
    /\ Len(writes) = 3
    /\ ~writes[3].ok
    /\ writes[1].ok /\ writes[2].ok
    /\ Len(table) = 2

\* C7: once a handle is cached, every later get_engine call returns that handle
\* and makes no connection attempt; the cached handle never changes.
C7_HandleMemoized ==
    [][(cache.filled /\ cache.value # None)
         => /\ cache' = cache
            /\ connects' = connects
            /\ engine' = cache.value]_vars

\* a second script run answered from the cache with the handle
C7_Witness ==
    /\ ge = "cached"
    /\ engine # None
    /\ engine = cache.value
    /\ runs = 2

\* C9: every file's first write is a 'replace', so after a batch in which every
\* file succeeded the table holds exactly the rows of the last file.
C9_LastFileWins ==
    /\ writes # <<>> => writes[1].mode = "replace"
    /\ (pc = "done" /\ AllTrue(results))
         => /\ Len(writes) >= 1
            /\ table = [i \in 1 .. Len(writes) |-> <<runs, uploaded, i>>]

\* two files of two chunks each, both succeeded
C9_Witness ==
    /\ pc = "done"
    /\ uploaded = 2
    /\ AllTrue(results)
    /\ Len(writes) = 2
    /\ table = << <<runs, 2, 1>>, <<runs, 2, 2>> >>

\* C10: with engine None no write is issued, every file of the batch fails
\* (also one that yielded no chunk), success_count stays 0 and raw_data_loaded
\* is not set.
C10_NoEngineNoSuccess ==
    (engine = None /\ pc \in {"ready", "batch", "file", "done"})
        => /\ writes = <<>>
           /\ table = <<>>
           /\ success_count = 0
           /\ \A i \in 1 .. Len(results) : ~results[i]
           /\ raw_data_loaded = "None"

\* a finished batch of two files with engine None, the last of which yielded a chunk
C10_Witness ==
    /\ pc = "done"
    /\ engine = None
    /\ Len(results) = 2
    /\ chunk = 1

\* the cells of a row of the input, on the columns the result kept
Projected(cells, columns) == [k \in 1 .. Len(columns) |-> cells[columns[k]]]

AllNull(cells) == \A j \in 1 .. Len(cells) : cells[j] = Null

\* the cells of the rows of d whose position is in keep, on the given columns
KeptCells(d, keep, columns) ==
    LET kept == Pick(d.rows, keep)
    IN [i \in 1 .. Len(kept) |-> Projected(kept[i].cells, columns)]

CellsOf(d) == [i \in 1 .. RowCount(d) |-> d.rows[i].cells]

NoEqualRows(d) ==
    \A i, j \in 1 .. RowCount(d) : i # j => d.rows[i].cells # d.rows[j].cells

\* C5: cleaning the cleaned frame returns the same frame, and the second report
\* has no row and no column removed.
C5_CleanIdempotent ==
    pass = 2
        => /\ cleaned[2] = cleaned[1]
           /\ stats[2].filas_eliminadas = 0
           /\ stats[2].columnas_eliminadas = 0

\* a frame that lost rows and a column in the first pass and kept some rows
C5_Witness ==
    /\ pass = 2
    /\ stats[1].filas_eliminadas > 0
    /\ stats[1].columnas_eliminadas > 0
    /\ RowCount(cleaned[1]) > 0

\* C6: rows removed plus rows kept is the input's row count, the same for the
\* columns, and neither removed count is negative.
C6_Conservation ==
    \A p \in 1 .. pass :
        LET input == IF p = 1 THEN df ELSE cleaned[p - 1] IN
        /\ stats[p].filas_eliminadas + RowCount(cleaned[p]) = RowCount(input)
        /\ stats[p].columnas_eliminadas + ColumnCount(cleaned[p]) = ColumnCount(input)
        /\ stats[p].filas_eliminadas >= 0
        /\ stats[p].columnas_eliminadas >= 0

\* a frame of three rows and two columns that lost two rows and one column
C6_Witness ==
    /\ pass = 1
    /\ RowCount(df) = 3
    /\ ColumnCount(df) = 2
    /\ stats[1].filas_eliminadas = 2
    /\ stats[1].columnas_eliminadas = 1

\* C8 as stated: of the rows equal on all columns exactly the first is kept, in
\* the input's order, no two rows of the result are equal, and the rows removed
\* are the later occurrences.
C8_FirstOfEqualRowsKept ==
    pass >= 1 =>
        LET first == {i \in 1 .. RowCount(df) :
                        \A j \in 1 .. (i - 1) : df.rows[j].cells # df.rows[i].cells}
        IN /\ CellsOf(cleaned[1]) = KeptCells(df, first, cleaned[1].columns)
           /\ NoEqualRows(cleaned[1])
           /\ stats[1].filas_eliminadas = RowCount(df) - Cardinality(first)

\* C8 amended: every entirely null row is removed; of the other rows, those
\* equal on all columns keep exactly their first occurrence, in the input's
\* order; no two rows of the result are equal.
C8_FirstOfEqualNonNullRowsKept ==
    pass >= 1 =>
        LET first == {i \in 1 .. RowCount(df) :
                        /\ ~AllNull(df.rows[i].cells)
                        /\ \A j \in 1 .. (i - 1) : df.rows[j].cells # df.rows[i].cells}
        IN /\ CellsOf(cleaned[1]) = KeptCells(df, first, cleaned[1].columns)
           /\ NoEqualRows(cleaned[1])
           /\ stats[1].filas_eliminadas = RowCount(df) - Cardinality(first)
           /\ \A i \in 1 .. RowCount(cleaned[1]) : ~AllNull(cleaned[1].rows[i].cells)

\* rows [A, A, B] in one column give [A, B], one row removed
C8_Witness ==
    /\ pass = 1
    /\ ColumnCount(df) = 1
    /\ CellsOf(df) = << <<"a">>, <<"a">>, <<"b">> >>
    /\ CellsOf(cleaned[1]) = << <<"a">>, <<"b">> >>
    /\ stats[1].filas_eliminadas = 1

====
